---- MODULE Spec2Model ----
(***************************************************************************)
(* Model of the parity IDA library (parity.hpp, utility.hpp) and of the    *)
(* caller in test_1.cpp: encode_1 disperses a byte sequence over n data    *)
(* slices plus one XOR parity slice, decode rebuilds the sequence from the *)
(* slices with at most one of them lost.                                   *)
(*                                                                         *)
(* Memory is modelled as byte sequences (1-based) addressed by 0-based     *)
(* offsets; a pointer is a record [null, off].  A chunk (a value of type   *)
(* UIntT) is modelled by its object representation, a sequence of W bytes: *)
(* the library only ever memcpy's chunks and XORs them, and XOR on the     *)
(* integer is XOR on each byte of the representation.                      *)
(***************************************************************************)
EXTENDS Integers, Sequences, FiniteSets, TLC

(* ------------------------------ bounds --------------------------------- *)

\* Longest input enumerated exhaustively.
MaxLen == 3

\* Largest number of data slices n.
MaxN == 2

\* Largest number of bytes by which the caller undersizes a buffer.
MaxShort == 1

\* Largest number of superfluous chunks the caller asks decode for.
MaxExtra == 1

\* Longest input produced by generate_data.
MaxGen == 9

\* Largest quotient a division by zero may leave behind.
MaxQuot == 1

(* --------------------------- program constants ------------------------- *)

\* sizeof(UIntT) for the instantiations of run_experiment.
ChunkWidths == {1, 2, 4, 8}

\* The byte values of the exhaustively enumerated inputs, and the values an
\* out-of-bounds read may yield: encode_1 and decode never branch on a
\* byte and XOR acts on each bit alone, so all bits clear and all bits set
\* stand for the other values.
Bytes == {0, 255}

\* The input of the concrete scenario of the specification.
Scenario == <<1, 2, 3, 4, 5>>

(* ------------------------------ helpers -------------------------------- *)

Min(a, b) == IF a < b THEN a ELSE b

Max(a, b) == IF a < b THEN b ELSE a

\* A value-initialised byte array (make_unique<std::byte[]>, T value = {}).
Zeros(k) == [j \in 1..k |-> 0]

\* generate_data(size): byte k holds k % 256.
generate_data(size) == [j \in 1..size |-> (j - 1) % 256]

\* Bitwise exclusive or of two naturals (operator^ on one byte).
RECURSIVE XorByte(_, _)
XorByte(a, b) ==
    IF a = 0 THEN b
    ELSE IF b = 0 THEN a
    ELSE (((a % 2) + (b % 2)) % 2) + 2 * XorByte(a \div 2, b \div 2)

\* parity ^= chunk on UIntT.
XorChunk(x, y) == [j \in 1..Len(x) |-> XorByte(x[j], y[j])]

\* A pointer into a buffer, and the null pointer.
Ptr(o) == [null |-> FALSE, off |-> o]

nullptr == [null |-> TRUE, off |-> 0]

\* p += k
Advance(ptr, k) == [ptr EXCEPT !.off = @ + k]

\* from_bytes_cast<T>(source): memcpy of sizeof(T) bytes starting at source.
\* A byte outside the buffer reads as g.
from_bytes_cast(source, off, w, g) ==
    [j \in 1..w |-> IF off + j <= Len(source) THEN source[off + j] ELSE g]

\* Variant of from_bytes_cast_padded whose byte array is not zeroed: the
\* bytes after the first size ones hold what was there before.
from_bytes_cast_padded_Uninit(from, off, size, w) ==
    LET bytes == [j \in 1..w |-> IF j <= size THEN from[off + j] ELSE 1]
    IN  from_bytes_cast(bytes, 0, w, 0)

\* from_bytes_cast_padded<T>(from, size): size bytes of from followed by
\* zero bytes up to sizeof(T).
from_bytes_cast_padded(from, off, size, w) ==
    LET bytes == [j \in 1..w |-> IF j <= size THEN from[off + j] ELSE 0]
    IN  from_bytes_cast(bytes, 0, w, 0)

\* to_bytes_cast(source, target): memcpy of sizeof(T) bytes to target.  The
\* result is the target buffer; bytes that fall outside the buffer are lost.
to_bytes_cast(chunk, target, off) ==
    [j \in 1..Len(target) |->
        IF off < j /\ j <= off + Len(chunk) THEN chunk[j - off] ELSE target[j]]

\* Whether w bytes at offset off lie inside the buffer.
InBounds(buf, off, w) == off + w <= Len(buf)

\* ida_properties_t::num_chunks()
num_chunks(props) == props.full_rounds + (IF props.partial_round THEN 1 ELSE 0)

\* Variant of ida_properties whose round size forgets the chunk size.
ida_properties_RoundOfN(s, chunk_size, nn) ==
    LET round_size == nn
    IN  [full_rounds |-> s \div round_size,
         partial_round |-> (s % round_size) # 0]

\* ida_properties<UIntT>(in_begin, in_end, n) with s = distance(in_begin,
\* in_end) and chunk_size = sizeof(UIntT); defined for round_size # 0.
ida_properties(s, chunk_size, nn) ==
    LET round_size == nn * chunk_size
    IN  [full_rounds |-> s \div round_size,
         partial_round |-> (s % round_size) # 0]

(* ------------------------------- state --------------------------------- *)

VARIABLES
    data,       \* the input byte sequence (in_begin .. in_end)
    n,          \* number of data slices
    W,          \* sizeof(UIntT)
    mem,        \* encode_buffer: mem[k] is the storage of slice k
    slices,     \* the caller's pointer array handed to encode_1 / decode
    in_begin,   \* encode_1: input cursor (offset into data)
    p,          \* encode_1: the properties computed at entry
    round,      \* encode_1: round counter
    i,          \* encode_1: slice counter of the inner loop
    parity,     \* encode_1: parity accumulator
    out,        \* decode_buffer
    chunks,     \* decode: the chunks argument
    path,       \* decode: which branch ran ("none", "copy", "recover")
    rd,         \* decode: indices of the slices it read through
    ub,         \* undefined behaviour executed so far
    pc          \* position of the program

vars == <<data, n, W, mem, slices, in_begin, p, round, i, parity,
          out, chunks, path, rd, ub, pc>>

\* All byte sequences of length at most MaxLen over Bytes, the outputs
\* of generate_data, and the scenario of the specification.
Inputs ==
    UNION {[1..k -> Bytes] : k \in 0..MaxLen}
    \cup {generate_data(k) : k \in (MaxLen + 1)..MaxGen}
    \cup {Scenario}

\* Bytes each slice must hold for an input of s bytes.
SliceNeed(s, w, nn) ==
    IF nn = 0 THEN 0 ELSE ((s + nn * w - 1) \div (nn * w)) * w

\* run_experiment up to the call of encode_1: the input, zeroed slice
\* storage of slice_size bytes each (what the input needs, or up to
\* MaxShort less),
\* and write_to pointing at each slice.
Init ==
    /\ data \in Inputs
    /\ n \in 0..MaxN
    /\ W \in ChunkWidths
    /\ \E short \in 0..MaxShort :
          mem = [k \in 0..n |-> Zeros(Max(0, SliceNeed(Len(data), W, n) - short))]
    /\ slices = [k \in 0..n |-> Ptr(0)]
    /\ in_begin = 0
    /\ p = [full_rounds |-> 0, partial_round |-> FALSE]
    /\ round = 0
    /\ i = 0
    /\ parity = Zeros(W)
    /\ out = << >>
    /\ chunks = 0
    /\ path = "none"
    /\ rd = {}
    /\ ub = {}
    /\ pc = "start"

(* ------------------------------ encode_1 ------------------------------- *)

\* Variant of AfterRound that never enters the partial round.
AfterRound_NoPartial(props, r) ==
    IF r < props.full_rounds THEN "full" ELSE "encoded"

\* Where encode_1 continues once r full rounds are done.
AfterRound(props, r) ==
    IF r < props.full_rounds THEN "full"
    ELSE IF props.partial_round THEN "partial"
    ELSE "encoded"

\* Entry of encode_1: the call of ida_properties.  With n = 0 the division
\* s / round_size is undefined: the call traps or leaves any quotient and
\* any remainder test.
EncodeCall ==
    /\ pc = "start"
    /\ IF n * W = 0
       THEN /\ ub' = ub \cup {"div_zero"}
            /\ \/ /\ pc' = "encode_trap"
                  /\ p' = p
               \/ /\ p' \in [full_rounds : 0..MaxQuot, partial_round : BOOLEAN]
                  /\ pc' = AfterRound(p', 0)
       ELSE /\ p' = ida_properties(Len(data), W, n)
            /\ pc' = AfterRound(p', 0)
            /\ ub' = ub
    /\ UNCHANGED <<data, n, W, mem, slices, in_begin, round, i, parity,
                   out, chunks, path, rd>>

\* to_bytes_cast(chunk, slices[k]); slices[k] += sizeof(UIntT).  A write
\* past the end of the slice storage is undefined: it traps, or the bytes
\* land outside the slice.
StoreChunk(k, chunk, trap, nextpc) ==
    IF ~InBounds(mem[k], slices[k].off, W) /\ trap
    THEN /\ pc' = "encode_trap"
         /\ ub' = ub \cup {"oob_write"}
         /\ UNCHANGED <<mem, slices>>
    ELSE /\ mem' = [mem EXCEPT ![k] = to_bytes_cast(chunk, @, slices[k].off)]
         /\ slices' = [slices EXCEPT ![k] = Advance(@, W)]
         /\ ub' = IF InBounds(mem[k], slices[k].off, W) THEN ub
                  ELSE ub \cup {"oob_write"}
         /\ pc' = nextpc

\* One iteration of the inner loop of a full round.
FullChunk ==
    /\ pc = "full"
    /\ i < n
    /\ LET chunk == from_bytes_cast(data, in_begin, W, 0)
       IN  /\ \E trap \in BOOLEAN : StoreChunk(i, chunk, trap, "full")
           /\ IF pc' = "encode_trap"
              THEN UNCHANGED <<parity, in_begin, i>>
              ELSE /\ parity' = XorChunk(parity, chunk)
                   /\ in_begin' = in_begin + W
                   /\ i' = i + 1
    /\ UNCHANGED <<data, n, W, p, round, out, chunks, path, rd>>

\* Variant of FullParity whose accumulator is declared outside the loop of
\* the rounds and so is not reset.
FullParity_KeepParity ==
    /\ pc = "full"
    /\ i = n
    /\ \E trap \in BOOLEAN : StoreChunk(n, parity, trap, AfterRound(p, round + 1))
    /\ IF pc' = "encode_trap"
       THEN UNCHANGED <<parity, round, i>>
       ELSE /\ parity' = parity
            /\ round' = round + 1
            /\ i' = 0
    /\ UNCHANGED <<data, n, W, p, in_begin, out, chunks, path, rd>>

\* End of a full round: the parity chunk is written; the next round starts
\* with a fresh accumulator.
FullParity ==
    /\ pc = "full"
    /\ i = n
    /\ \E trap \in BOOLEAN : StoreChunk(n, parity, trap, AfterRound(p, round + 1))
    /\ IF pc' = "encode_trap"
       THEN UNCHANGED <<parity, round, i>>
       ELSE /\ parity' = Zeros(W)
            /\ round' = round + 1
            /\ i' = 0
    /\ UNCHANGED <<data, n, W, p, in_begin, out, chunks, path, rd>>

\* Variant of PartialChunk that advances the input cursor by a whole chunk,
\* as the full rounds do.
PartialChunk_AdvanceW ==
    /\ pc = "partial"
    /\ i < n
    /\ LET size == Len(data) - in_begin
           size_chunk == Min(size, W)
           chunk == from_bytes_cast_padded(data, in_begin, size_chunk, W)
       IN  /\ \E trap \in BOOLEAN : StoreChunk(i, chunk, trap, "partial")
           /\ IF pc' = "encode_trap"
              THEN UNCHANGED <<parity, in_begin, i>>
              ELSE /\ parity' = XorChunk(parity, chunk)
                   /\ in_begin' = in_begin + W
                   /\ i' = i + 1
    /\ UNCHANGED <<data, n, W, p, round, out, chunks, path, rd>>

\* One iteration of the inner loop of the partial round.
PartialChunk ==
    /\ pc = "partial"
    /\ i < n
    /\ LET size == Len(data) - in_begin
           size_chunk == Min(size, W)
           chunk == from_bytes_cast_padded(data, in_begin, size_chunk, W)
       IN  /\ \E trap \in BOOLEAN : StoreChunk(i, chunk, trap, "partial")
           /\ IF pc' = "encode_trap"
              THEN UNCHANGED <<parity, in_begin, i>>
              ELSE /\ parity' = XorChunk(parity, chunk)
                   /\ in_begin' = in_begin + size_chunk
                   /\ i' = i + 1
    /\ UNCHANGED <<data, n, W, p, round, out, chunks, path, rd>>

\* End of the partial round; encode_1 returns p.
PartialParity ==
    /\ pc = "partial"
    /\ i = n
    /\ \E trap \in BOOLEAN : StoreChunk(n, parity, trap, "encoded")
    /\ UNCHANGED <<data, n, W, p, in_begin, round, i, parity,
                   out, chunks, path, rd>>

EncodeNext == EncodeCall \/ FullChunk \/ FullParity \/ PartialChunk \/ PartialParity

(* ------------------------------- decode -------------------------------- *)

\* run_experiment between the calls: a fresh pointer array read_from / read_fromp
\* pointing at the start of every slice, null for the slices marked lost.
\* A run in which encode_1 executed undefined behaviour is not followed
\* any further.
ReadFrom ==
    /\ pc = "encoded"
    /\ ub = {}
    /\ \E absent \in SUBSET (0..n) :
          slices' = [k \in 0..n |-> IF k \in absent THEN nullptr ELSE Ptr(0)]
    /\ pc' = "ready"
    /\ UNCHANGED <<data, n, W, mem, in_begin, p, round, i, parity,
                   out, chunks, path, rd, ub>>

\* std::find(slices, slices + (n + 1), nullptr) and std::distance: the index
\* of the first null entry, n + 1 when there is none.
find(sl, nn) ==
    IF \E k \in 0..nn : sl[k].null
    THEN CHOOSE k \in 0..nn : sl[k].null /\ \A j \in 0..(k - 1) : ~sl[j].null
    ELSE nn + 1

\* The undefined behaviour in reading a chunk through slices[k]: the entry
\* is null, or the chunk extends past the slice storage.
ReadFault(st, k) ==
    IF st.sl[k].null THEN {"null_read"}
    ELSE IF ~InBounds(mem[k], st.sl[k].off, W) THEN {"oob_read"}
    ELSE {}

\* The undefined behaviour in writing a chunk at offset at of the output.
WriteFault(st, at) ==
    IF ~InBounds(st.out, at, W) THEN {"oob_write"} ELSE {}

\* The chunk read through slices[k]; bytes that are not in the slice
\* storage read as g.
ReadChunk(st, k, g) ==
    IF st.sl[k].null THEN [j \in 1..W |-> g]
    ELSE from_bytes_cast(mem[k], st.sl[k].off, W, g)

\* The state of decode after undefined behaviour f: it traps there, or it
\* carries on to state go.
Faulting(st, f, trap, touched, go) ==
    IF st.halt THEN st
    ELSE IF f # {} /\ trap
    THEN [st EXCEPT !.halt = TRUE, !.ub = @ \cup f, !.rd = @ \cup touched]
    ELSE [go EXCEPT !.ub = @ \cup f]

\* Variant of CopyChunk that does not advance the slice cursor.
CopyChunk_NoAdvance(st, k, trap, g) ==
    Faulting(st, ReadFault(st, k) \cup WriteFault(st, st.to), trap, {k},
        [st EXCEPT !.out = to_bytes_cast(ReadChunk(st, k, g), @, st.to),
                   !.to = @ + W,
                   !.rd = @ \cup {k}])

\* Body of the inner loop of the pass-through branch:
\* memcpy(to, slices[k], sizeof(UIntT)); slices[k] += ...; to += ...
CopyChunk(st, k, trap, g) ==
    Faulting(st, ReadFault(st, k) \cup WriteFault(st, st.to), trap, {k},
        [st EXCEPT !.out = to_bytes_cast(ReadChunk(st, k, g), @, st.to),
                   !.sl[k] = Advance(@, W),
                   !.to = @ + W,
                   !.rd = @ \cup {k}])

\* for (i = from; i < upto; ++i) body(i)
RECURSIVE CopyLoop(_, _, _, _, _)
CopyLoop(st, from, upto, trap, g) ==
    IF from >= upto THEN st
    ELSE CopyLoop(CopyChunk(st, from, trap, g), from + 1, upto, trap, g)

\* The pass-through branch: chunks rounds of n copies.
RECURSIVE CopyRounds(_, _, _, _, _)
CopyRounds(st, r, nn, trap, g) ==
    IF r >= st.chunks THEN st
    ELSE CopyRounds(CopyLoop(st, 0, nn, trap, g), r + 1, nn, trap, g)

\* recovery = from_bytes_cast(slices[n]); slices[n] += sizeof(UIntT)
ReadParity(st, nn, trap, g) ==
    Faulting(st, ReadFault(st, nn), trap, {nn},
        [st EXCEPT !.recovery = ReadChunk(st, nn, g),
                   !.sl[nn] = Advance(@, W),
                   !.rd = @ \cup {nn}])

\* Variant of CancelChunk that copies the chunk without cancelling it out
\* of recovery.
CancelChunk_NoCancel(st, k, trap, g) ==
    Faulting(st, ReadFault(st, k) \cup WriteFault(st, st.to), trap, {k},
        [st EXCEPT !.out = to_bytes_cast(ReadChunk(st, k, g), @, st.to),
                   !.sl[k] = Advance(@, W),
                   !.to = @ + W,
                   !.rd = @ \cup {k}])

\* Body of the two inner loops of the recovery branch: the chunk of slice k
\* goes to the output and is cancelled out of recovery.
CancelChunk(st, k, trap, g) ==
    Faulting(st, ReadFault(st, k) \cup WriteFault(st, st.to), trap, {k},
        [st EXCEPT !.out = to_bytes_cast(ReadChunk(st, k, g), @, st.to),
                   !.recovery = XorChunk(@, ReadChunk(st, k, g)),
                   !.sl[k] = Advance(@, W),
                   !.to = @ + W,
                   !.rd = @ \cup {k}])

RECURSIVE CancelLoop(_, _, _, _, _)
CancelLoop(st, from, upto, trap, g) ==
    IF from >= upto THEN st
    ELSE CancelLoop(CancelChunk(st, from, trap, g), from + 1, upto, trap, g)

\* recovery_to = to; to += sizeof(UIntT)
ReserveSlot(st) ==
    IF st.halt THEN st
    ELSE [st EXCEPT !.recovery_to = st.to, !.to = @ + W]

\* to_bytes_cast(recovery, recovery_to)
WriteRecovered(st, trap) ==
    Faulting(st, WriteFault(st, st.recovery_to), trap, {},
        [st EXCEPT !.out = to_bytes_cast(st.recovery, @, st.recovery_to)])

\* One round of the recovery branch.
RecoverRound(st, nn, missing_idx, trap, g) ==
    LET s1 == ReadParity(st, nn, trap, g)
        s2 == CancelLoop(s1, 0, missing_idx, trap, g)
        s3 == ReserveSlot(s2)
        s4 == CancelLoop(s3, missing_idx + 1, nn, trap, g)
    IN  WriteRecovered(s4, trap)

RECURSIVE RecoverRounds(_, _, _, _, _, _)
RecoverRounds(st, r, nn, missing_idx, trap, g) ==
    IF r >= st.chunks THEN st
    ELSE RecoverRounds(RecoverRound(st, nn, missing_idx, trap, g),
                       r + 1, nn, missing_idx, trap, g)

\* Variant of decode that takes the pass-through branch only for
\* missing_idx > n.
decode_StrictCompare(sl, nn, buf, c, trap, g) ==
    LET missing_idx == find(sl, nn)
        st == [sl |-> sl, to |-> 0, out |-> buf, chunks |-> c,
               recovery |-> Zeros(W), recovery_to |-> 0,
               rd |-> {}, ub |-> {}, halt |-> FALSE]
    IN  IF missing_idx > nn
        THEN [res |-> CopyRounds(st, 0, nn, trap, g), path |-> "copy"]
        ELSE [res |-> RecoverRounds(st, 0, nn, missing_idx, trap, g),
              path |-> "recover"]

\* decode<UIntT>(slices, n, to, chunks) on the pointer array sl and the
\* output buffer buf.  Undefined behaviour traps (trap) or reads g.
decode(sl, nn, buf, c, trap, g) ==
    LET missing_idx == find(sl, nn)
        st == [sl |-> sl, to |-> 0, out |-> buf, chunks |-> c,
               recovery |-> Zeros(W), recovery_to |-> 0,
               rd |-> {}, ub |-> {}, halt |-> FALSE]
    IN  IF missing_idx >= nn
        THEN [res |-> CopyRounds(st, 0, nn, trap, g), path |-> "copy"]
        ELSE [res |-> RecoverRounds(st, 0, nn, missing_idx, trap, g),
              path |-> "recover"]

\* run_experiment calls decode on the fresh pointer array, a chunk count
\* (the recorded one, or up to MaxExtra more) and a zeroed decode_buffer (of
\* chunks * n * W bytes, or up to MaxShort less).
Decode ==
    /\ pc = "ready"
    /\ \E c \in num_chunks(p)..(num_chunks(p) + MaxExtra), short \in 0..MaxShort :
          \E buf \in {Zeros(Max(0, c * n * W - short))} :
          \E clean \in {decode(slices, n, buf, c, FALSE, 0)} :
             \E trap \in BOOLEAN, g \in Bytes :
                 \* The choice of trap and g matters only to a call that
                 \* executes undefined behaviour.
                 /\ clean.res.ub = {} => (~trap /\ g = 0)
                 /\ \E d \in {IF clean.res.ub = {} THEN clean
                             ELSE decode(slices, n, buf, c, trap, g)} :
                        /\ chunks' = c
                        /\ slices' = d.res.sl
                        /\ out' = d.res.out
                        /\ rd' = d.res.rd
                        /\ ub' = ub \cup d.res.ub
                        /\ path' = d.path
                        /\ pc' = IF d.res.halt THEN "decode_trap" ELSE "decoded"
    /\ UNCHANGED <<data, n, W, mem, in_begin, p, round, i, parity>>

\* A caller that builds no fresh pointer array: decode is handed the array
\* the previous call used (write_to after encode_1, read_from after a first
\* decode), with the recorded chunk count and a decode_buffer of
\* chunks * n * W bytes (a zeroed one after encode_1, the same one after a
\* decode).
DecodeReuse ==
    /\ pc \in {"encoded", "decoded"}
    /\ ub = {}
    /\ \E c \in {IF pc = "encoded" THEN num_chunks(p) ELSE chunks} :
          \E buf \in {IF pc = "encoded" THEN Zeros(c * n * W) ELSE out} :
          \E clean \in {decode(slices, n, buf, c, FALSE, 0)} :
             \E trap \in BOOLEAN, g \in Bytes :
                 /\ clean.res.ub = {} => (~trap /\ g = 0)
                 /\ \E d \in {IF clean.res.ub = {} THEN clean
                             ELSE decode(slices, n, buf, c, trap, g)} :
                        /\ chunks' = c
                        /\ slices' = d.res.sl
                        /\ out' = d.res.out
                        /\ rd' = d.res.rd
                        /\ ub' = ub \cup d.res.ub
                        /\ path' = d.path
                        /\ pc' = IF d.res.halt THEN "redecode_trap" ELSE "redecoded"
    /\ UNCHANGED <<data, n, W, mem, in_begin, p, round, i, parity>>

Next == EncodeNext \/ ReadFrom \/ Decode \/ DecodeReuse

Spec == Init /\ [][Next]_vars

(* ------------------------- vocabulary of the claims -------------------- *)

\* The slices the caller marked lost.
Absent == {k \in 0..n : slices[k].null}

\* The chunk at byte offset off of a buffer.
ChunkAt(buf, off) == SubSeq(buf, off + 1, off + W)

\* encode_1 has returned.
Encoded ==
    pc \in {"encoded", "ready", "decoded", "decode_trap", "redecoded", "redecode_trap"}

\* encode_1 was called and is over (it returned or it trapped).
EncodeCalled == pc \in {"encoded", "encode_trap"}

\* decode was called (it returned or it trapped).
DecodeCalled == pc \in {"decoded", "decode_trap"}

\* Every slice holds the num_chunks() chunks encode_1 writes to it.
SlicesFit == \A k \in 0..n : Len(mem[k]) >= num_chunks(p) * W

\* A call of decode that respects the contract on sizes: the chunk count
\* recorded by encode_1 and an output buffer of chunks * n * W bytes.
SizesAgree ==
    /\ SlicesFit
    /\ chunks = num_chunks(p)
    /\ Len(out) >= chunks * n * W

\* The first Len(data) bytes of the output are the input.
Restored == Len(out) >= Len(data) /\ SubSeq(out, 1, Len(data)) = data

\* XOR of the chunks of round r of the data slices k..n-1 other than skip,
\* on top of acc.
RECURSIVE XorRound(_, _, _, _)
XorRound(acc, k, skip, r) ==
    IF k >= n THEN acc
    ELSE XorRound(IF k = skip THEN acc ELSE XorChunk(acc, ChunkAt(mem[k], r * W)),
                  k + 1, skip, r)

\* The data slice and the byte offset in it that hold input byte pos.
SliceOf(pos) == (pos \div W) % n

OffsetOf(pos) == (pos \div (n * W)) * W + (pos % W)

\* A present slice is shorter than the chunks decode was asked for.
SliceTooShort ==
    \E k \in 0..n : ~slices[k].null /\ Len(mem[k]) < chunks * W

\* decode was called on a pointer array a previous call had used.
ReuseCalled == pc \in {"redecoded", "redecode_trap"}

\* The pointer array a caller builds afresh for the slices it holds.
FreshArray == [k \in 0..n |-> IF slices[k].null THEN nullptr ELSE Ptr(0)]

\* The number of data chunks of the partial round written so far.
PartialWritten == IF pc = "partial" THEN i ELSE n

\* The error reports the specification asks for; the library has no way
\* of reporting an error, so the program is never at one of them.
Reported(err) == pc = err

(* -------------------------------- claims ------------------------------- *)

\* C1: with n >= 1, buffers of the required sizes and no slice absent,
\* decoding num_chunks() chunks of what encode_1 wrote returns normally
\* and the first inputLength bytes of the output are the input.
RoundTrip ==
    (DecodeCalled /\ n >= 1 /\ SizesAgree /\ Absent = {})
        => (pc = "decoded" /\ ub = {} /\ Restored)

RoundTripWitness ==
    /\ pc = "decoded" /\ n = 2 /\ W = 2 /\ SizesAgree /\ Absent = {}
    /\ p.full_rounds >= 1 /\ p.partial_round
    /\ \E j \in 1..Len(data) : data[j] # 0
    /\ Restored

\* C2: with n >= 1 and exactly one data slice m absent, decode returns
\* normally, the first inputLength bytes of the output are the input, and
\* in every round the chunk at slot m of the output is the parity chunk
\* XORed with the chunks of the n-1 present data slices.
SingleDataLoss ==
    \A m \in 0..(n - 1) :
        (DecodeCalled /\ n >= 1 /\ SizesAgree /\ Absent = {m})
            => /\ pc = "decoded" /\ ub = {} /\ Restored
               /\ \A r \in 0..(chunks - 1) :
                     ChunkAt(out, (r * n + m) * W)
                         = XorRound(ChunkAt(mem[n], r * W), 0, m, r)

SingleDataLossWitness ==
    /\ pc = "decoded" /\ n = 2 /\ SizesAgree /\ Absent = {0}
    /\ path = "recover"
    /\ p.full_rounds >= 1 /\ p.partial_round
    /\ \E j \in 1..Len(data) : data[j] # 0
    /\ Restored

\* C3: with n >= 1 and the parity slice absent, decode takes the
\* pass-through branch, never reads through slices[n], returns normally and
\* the first inputLength bytes of the output are the input.
ParityLoss ==
    (DecodeCalled /\ n >= 1 /\ SizesAgree /\ Absent = {n})
        => (pc = "decoded" /\ ub = {} /\ path = "copy" /\ n \notin rd /\ Restored)

ParityLossWitness ==
    /\ pc = "decoded" /\ n = 2 /\ SizesAgree /\ Absent = {n}
    /\ path = "copy" /\ rd = {0, 1}
    /\ p.full_rounds >= 1 /\ p.partial_round
    /\ \E j \in 1..Len(data) : data[j] # 0
    /\ Restored

\* C4: after encode_1 returns (n >= 1, slices large enough), in every round
\* r < num_chunks(), the partial round included, the chunk of the parity
\* slice is the XOR of the n chunks of the data slices.
ParityInvariant ==
    (Encoded /\ n >= 1 /\ SlicesFit)
        => \A r \in 0..(num_chunks(p) - 1) :
              ChunkAt(mem[n], r * W) = XorRound(Zeros(W), 0, n, r)

ParityInvariantWitness ==
    /\ pc = "encoded" /\ n = 2 /\ SlicesFit
    /\ p.full_rounds >= 2 /\ p.partial_round
    /\ ChunkAt(mem[n], 0) # Zeros(W)
    /\ ChunkAt(mem[n], p.full_rounds * W) # Zeros(W)
    /\ ChunkAt(mem[n], p.full_rounds * W)
          = XorRound(Zeros(W), 0, n, p.full_rounds)

\* C5: after encode_1 returns (n >= 1, slices large enough), input byte pos
\* is stored in data slice (pos div W) mod n at offset
\* (pos div (n*W))*W + (pos mod W), and every other byte of the
\* num_chunks()*W bytes of a data slice is zero; for n = 2, W = 1 and input
\* 01 02 03 04 05 the slices are 01 03 05, 02 04 00 and parity 03 07 05.
DispersalLayout ==
    (Encoded /\ n >= 1 /\ SlicesFit)
        => /\ \A pos \in 0..(Len(data) - 1) :
                 mem[SliceOf(pos)][OffsetOf(pos) + 1] = data[pos + 1]
           /\ \A k \in 0..(n - 1), off \in 0..(num_chunks(p) * W - 1) :
                 (\A pos \in 0..(Len(data) - 1) :
                     ~(SliceOf(pos) = k /\ OffsetOf(pos) = off))
                 => mem[k][off + 1] = 0
           /\ (data = Scenario /\ n = 2 /\ W = 1)
                 => /\ mem[0] = <<1, 3, 5>>
                    /\ mem[1] = <<2, 4, 0>>
                    /\ mem[2] = <<3, 7, 5>>

DispersalLayoutWitness ==
    /\ pc = "encoded" /\ data = Scenario /\ n = 2 /\ W = 1 /\ SlicesFit
    /\ mem[0] = <<1, 3, 5>> /\ mem[1] = <<2, 4, 0>> /\ mem[2] = <<3, 7, 5>>

\* C6: when encode_1 returns (n >= 1, slices large enough) it has advanced
\* every one of the n + 1 slice cursors by num_chunks() chunks of W bytes,
\* one chunk per write, with num_chunks() = full_rounds + (1 if
\* partial_round), and by nothing for the empty input.
SliceLength ==
    (pc = "encoded" /\ n >= 1 /\ SlicesFit)
        => /\ ub = {}
           /\ \A k \in 0..n :
                 /\ slices[k].off = num_chunks(p) * W
                 /\ slices[k].off
                       = (p.full_rounds + (IF p.partial_round THEN 1 ELSE 0)) * W
           /\ data = << >> => \A k \in 0..n : slices[k].off = 0

SliceLengthWitness ==
    /\ pc = "encoded" /\ n = 2 /\ W = 2 /\ SlicesFit
    /\ p.full_rounds = 2 /\ p.partial_round
    /\ \A k \in 0..n : slices[k].off = 6

\* C7: for n >= 1 the properties encode_1 works with are the quotient and
\* the remainder test of inputLength by n*W: full_rounds*n*W <= inputLength
\* < (full_rounds+1)*n*W and partial_round iff full_rounds*n*W # inputLength;
\* the empty input gives (0, false) and an exact multiple gives no partial
\* round.
PropertiesArithmetic ==
    (pc # "start" /\ n >= 1)
        => /\ p.full_rounds * (n * W) <= Len(data)
           /\ Len(data) < (p.full_rounds + 1) * (n * W)
           /\ p.partial_round <=> (p.full_rounds * (n * W) # Len(data))
           /\ Len(data) = 0 => (p.full_rounds = 0 /\ ~p.partial_round)
           /\ (\E q \in 0..Len(data) : q * (n * W) = Len(data)) => ~p.partial_round

PropertiesArithmeticWitness ==
    /\ pc # "start" /\ n = 2 /\ W = 2
    /\ Len(data) = 8 /\ p.full_rounds = 2 /\ ~p.partial_round

\* C8: a call of decode with more than one absent slice reports
\* MultipleMissingSlices, reads through no absent entry and writes nothing.
MultipleMissingDetected ==
    (DecodeCalled /\ Cardinality(Absent) > 1)
        => /\ Reported("MultipleMissingSlices")
           /\ "null_read" \notin ub
           /\ out = Zeros(Len(out))

\* C9: a call of encode_1 (and with it of ida_properties) with n = 0
\* reports InvalidParameter without dividing by zero and without going on
\* to its loops.
InvalidParameterDetected ==
    (pc # "start" /\ n = 0)
        => /\ Reported("InvalidParameter")
           /\ "div_zero" \notin ub

\* C10: a call of encode_1 with a slice shorter than num_chunks()*W bytes,
\* or of decode with a chunk count other than the recorded one, an output
\* shorter than chunkCount*n*W bytes or a present slice shorter than
\* chunkCount*W bytes, reports LengthMismatch and leaves every buffer
\* untouched.
LengthMismatchDetected ==
    /\ (EncodeCalled /\ n >= 1 /\ ~SlicesFit)
          => /\ Reported("LengthMismatch")
             /\ "oob_write" \notin ub
             /\ \A k \in 0..n : mem[k] = Zeros(Len(mem[k]))
    /\ (DecodeCalled /\ n >= 1
          /\ (chunks # num_chunks(p) \/ Len(out) < chunks * n * W \/ SliceTooShort))
          => /\ Reported("LengthMismatch")
             /\ ub = {}
             /\ out = Zeros(Len(out))

\* C11: no state persists between calls: when encode_1 or decode returns,
\* every entry of the caller's slices array still designates the start of
\* its slice, and a decode made with the array a previous call used (same
\* n, same chunk count, unchanged buffers) returns normally with the output
\* of a decode made with a fresh array.
NoStateBetweenCalls ==
    /\ (pc \in {"encoded", "decoded"} /\ n >= 1 /\ ub = {})
          => slices = FreshArray
    /\ (ReuseCalled /\ n >= 1)
          => /\ pc = "redecoded"
             /\ ub = {}
             /\ out = decode(FreshArray, n, Zeros(Len(out)), chunks, FALSE, 0).res.out

\* C12: in encode_1 (n >= 1) the input cursor never passes the end of the
\* input: before a read of a full round W bytes remain, in the partial
\* round the cursor stands at min(inputLength, (full_rounds*n + i)*W), so
\* that each read takes min(remaining, W) bytes and advances by as many; a
\* data chunk read once the input is exhausted is all zero; and when
\* encode_1 returns the cursor is the end of the input.
InputCursorBound ==
    (pc # "start" /\ n >= 1)
        => /\ in_begin <= Len(data)
           /\ pc = "full"
                 => /\ in_begin = (round * n + i) * W
                    /\ i < n => in_begin + W <= Len(data)
           /\ pc = "partial"
                 => in_begin = Min(Len(data), (p.full_rounds * n + i) * W)
           /\ (pc = "partial" \/ Encoded) /\ p.partial_round /\ SlicesFit
                 => \A k \in 0..(PartialWritten - 1) :
                       (p.full_rounds * n + k) * W >= Len(data)
                           => ChunkAt(mem[k], p.full_rounds * W) = Zeros(W)
           /\ Encoded => in_begin = Len(data)

InputCursorBoundWitness ==
    /\ pc = "partial" /\ n = 2 /\ W = 2 /\ i = n /\ SlicesFit
    /\ Len(data) = 5 /\ p.full_rounds = 1
    /\ in_begin = Len(data)
    /\ ChunkAt(mem[0], 2) = <<data[5], 0>>
    /\ ChunkAt(mem[1], 2) = Zeros(W)

====
